---- MODULE Spec2Model ----
(***************************************************************************)
(* Model of enchannel-zmq-backend's channel multiplexer,                   *)
(* createMainChannelFromSockets (src/src/index.ts:185-274): the sink       *)
(* (outgoingMessages), the merged source (incomingMessages) and the four   *)
(* sockets they drive, and of the construction that leads to it,           *)
(* createMainChannel, createSockets, createSocket, verifiedConnect and     *)
(* formConnectionString (src/src/index.ts:47-173).  The sockets are the    *)
(* transport collaborator.  The calls that the error taxonomy names may    *)
(* raise, which the actions draw as an input: the construction of a        *)
(* socket, send, and the removeAllListeners and close of the teardown.     *)
(***************************************************************************)
EXTENDS Integers, Sequences, FiniteSets, TLC

\* ---------------------------------------------------------------- bounds
MaxEvents == 2        \* "message" events emitted by the sockets
MaxConsumers == 2     \* consumers of the inbound source
MaxConnects == 2      \* "connect" events one socket emits

\* ------------------------------------------------------- values and objects
\* Object.keys(sockets) of the socket set createSockets returns.
ChannelOrder == <<"shell", "control", "stdin", "iopub">>

Channels == {ChannelOrder[i] : i \in 1..Len(ChannelOrder)}

\* The object with no own property.
Empty == [f \in {} |-> ""]

\* Own properties every object literal inherits from Object.prototype:
\* sockets["toString"] is a function, truthy, and has no send.
InheritedKeys == {"toString"}

\* The session header argument: an object with session and username.
SessionHeaders ==
  { [session |-> "sess-1", username |-> "alice"],
    [session |-> "sess-2", username |-> "bob"] }

\* typeof socket.close: the declared Socket class has close().
HasClose(name) == name \in Channels

\* null, handed to next() in place of a message.
NullMessage == [null |-> "null"]

\* !v of a string-or-undefined property value.
Undefined == "undefined"

Falsy(v) == v \in {Undefined, ""}

\* o[k]: undefined when k is no property of o.
Get(o, k) == IF k \in DOMAIN o THEN o[k] ELSE Undefined

\* { ...a, ...b }: the properties of b win.
Spread(a, b) ==
  [f \in DOMAIN a \cup DOMAIN b |-> IF f \in DOMAIN b THEN b[f] ELSE a[f]]

\* delete o[k]
Delete(o, k) == [f \in DOMAIN o \ {k} |-> o[f]]

\* ...message.header, where header may be missing: spreading undefined adds
\* nothing.
SpreadOf(o, k) == IF k \in DOMAIN o THEN o[k] ELSE Empty

\* ------------------------------------------------------------ the inputs
\* Channel tags a caller may put on an outbound message that name no socket:
\* an unknown channel, a property inherited from Object.prototype, the empty
\* string.
StrayTags == InheritedKeys \cup {"hb", ""}

\* A caller's message with a (forged) session and username of its own in its
\* header, and one with no header property and no buffers.
Envelopes ==
  { [header |-> [msg_id |-> "m1", session |-> "forged",
                 username |-> "mallory"],
     parent_header |-> "ph-1", content |-> "foo:1", metadata |-> "md-1",
     buffers |-> "buf-1"],
    [parent_header |-> "ph-2", content |-> "bar", metadata |-> "md-2"] }

Tagged(envelope, tag) == Spread(envelope, [channel |-> tag])

\* What next() may be handed: null, a message with no channel property, a
\* message with a stray tag, and each envelope for each channel.
OutMessages ==
  {NullMessage}
    \cup {e \in Envelopes : "header" \notin DOMAIN e}
    \cup {Tagged(e, t) : e \in Envelopes, t \in Channels}
    \cup {Tagged(e, t) : e \in {x \in Envelopes : "header" \in DOMAIN x},
                         t \in StrayTags}

\* Bodies a socket may emit with its "message" event: a jmp message, which
\* carries its identity frames, and one that has a channel property of its
\* own; content carries the number of the event.
InBodies(n) ==
  { [header |-> "kh", content |-> n, idents |-> "id-frame"],
    [header |-> "kh", content |-> n, idents |-> "id-frame",
     channel |-> "shell"] }

Consumers == 1..MaxConsumers

\* The call of the teardown that raises: none, or one call on one socket (the
\* first raise ends the handler, so one is all a run can see).
NoFault == <<"", "">>

Faults == {NoFault} \cup (Channels \X {"removeAllListeners", "close"})

\* ------------------------------------------------------------- the state
VARIABLES
  header,        \* the session header of this multiplexer
  isStopped,     \* outgoingMessages.isStopped
  msgListeners,  \* per socket: "message" listeners attached by fromEvent
  closed,        \* per socket: close() has returned
  ralCalls,      \* per socket: calls of removeAllListeners()
  closeCalls,    \* per socket: calls of close()
  consumers,     \* consumers subscribed to incomingMessages
  received,      \* per consumer: the messages of its current subscription
  nEvents,       \* "message" events so far
  teardownRuns,  \* runs of the complete handler
  last,          \* the last operation: its input, what it produced and the
                 \* calls it made on the sockets, in order
  config,        \* createMainChannel: the connection info
  subscription,  \* createMainChannel: the subscription argument
  ctorFault,     \* the channel whose socket the transport refuses to construct
  status,        \* of the createMainChannel call
  error,         \* what the call was rejected with
  sockLog,       \* per channel: the calls made on its socket, in order
  connects,      \* per channel: "connect" events its socket has emitted
  settled,       \* per channel: what createSocket's promise was resolved with
  channels       \* duplex channels the call has yielded

vars ==
  << header, isStopped, msgListeners, closed, ralCalls, closeCalls,
     consumers, received, nEvents, teardownRuns, last, config, subscription,
     ctorFault, status, error, sockLog, connects, settled, channels >>

muxVars ==
  << header, isStopped, msgListeners, closed, ralCalls, closeCalls,
     consumers, received, nEvents, teardownRuns, last >>

connectVars ==
  << config, subscription, ctorFault, status, error, sockLog, connects,
     settled, channels >>

socketVars == << closed, ralCalls, closeCalls >>

sourceVars == << consumers, received, nEvents >>

Op(op, chan, who, input, outcome, output, calls) ==
  [op |-> op, chan |-> chan, who |-> who, input |-> input,
   outcome |-> outcome, output |-> output, calls |-> calls]

\* One call of a method of the socket of a channel.
Call(name, method) == <<name, method>>

\* The multiplexer as createMainChannelFromSockets returns it.
MuxInit ==
  /\ header \in SessionHeaders
  /\ isStopped = FALSE
  /\ msgListeners = [c \in Channels |-> 0]
  /\ closed = [c \in Channels |-> FALSE]
  /\ ralCalls = [c \in Channels |-> 0]
  /\ closeCalls = [c \in Channels |-> 0]
  /\ consumers = {}
  /\ received = [k \in Consumers |-> <<>>]
  /\ nEvents = 0
  /\ teardownRuns = 0
  /\ last = Op("create", "", 0, Empty, "", Empty, <<>>)

\* No createMainChannel call has been made.
NotStarted ==
  /\ status = "idle"
  /\ error = ""
  /\ sockLog = [c \in Channels |-> <<>>]
  /\ connects = [c \in Channels |-> 0]
  /\ settled = [c \in Channels |-> <<>>]
  /\ channels = 0

\* A connection info with every port, as the kernel writes it.
TcpConfig ==
  [version |-> 5, transport |-> "tcp", ip |-> "127.0.0.1",
   shell_port |-> 5555, control_port |-> 5556, stdin_port |-> 5557,
   iopub_port |-> 5558, hb_port |-> 5559,
   signature_scheme |-> "hmac-sha256", key |-> "secret"]

IpcConfig == [TcpConfig EXCEPT !.transport = "ipc", !.ip = "/tmp/x"]

\* createMainChannelFromSockets called with four connected sockets.
Init ==
  /\ MuxInit
  /\ NotStarted
  /\ config = TcpConfig
  /\ subscription = Undefined
  /\ ctorFault = ""

\* ---------------------------------------------------------------- the sink
\* sockets[message.channel]: a socket, a property inherited from
\* Object.prototype, or undefined.
SocketLookup(tag) ==
  IF tag \in Channels THEN "socket"
  ELSE IF tag \in InheritedKeys THEN "inherited"
  ELSE "undefined"

\* The socket that sockets[tag] names.
SocketFor_First(tag) == ChannelOrder[1]

SocketFor(tag) == tag

\* new jmp.Message(properties): a Message has idents, header, parent_header,
\* metadata, content and buffers; none of the properties given is changed.
JmpMessage(properties) ==
  [idents |-> <<>>,
   header |-> properties.header,
   parent_header |-> properties.parent_header,
   metadata |-> properties.metadata,
   content |-> properties.content,
   buffers |-> properties.buffers]

\* header: { ...message.header, ...header }
MergeHeader_CallerWins(messageHeader, hdr) == Spread(hdr, messageHeader)

MergeHeader(messageHeader, hdr) == Spread(messageHeader, hdr)

\* The jMessage the next handler builds for a message.
TransportMessage(message, hdr) ==
  JmpMessage([header |-> MergeHeader(SpreadOf(message, "header"), hdr),
              parent_header |-> Get(message, "parent_header"),
              content |-> Get(message, "content"),
              metadata |-> Get(message, "metadata"),
              buffers |-> Get(message, "buffers")])

\* The guards of the next handler, before the try block.
Route_NoGuard(message) ==
  IF message = NullMessage THEN "raised_outside_try"
  ELSE IF SocketLookup(Get(message, "channel")) = "undefined"
    THEN "not_understood"
  ELSE "try"

Route(message) ==
  IF message = NullMessage \/ Falsy(Get(message, "channel")) THEN "no_channel"
  ELSE IF SocketLookup(Get(message, "channel")) = "undefined"
    THEN "not_understood"
  ELSE "try"

\* The try block: socket.send(jMessage) on a socket, a TypeError when what
\* was looked up has no send, an error raised by send itself.
TrySend(message, sendRaises) ==
  IF SocketLookup(Get(message, "channel")) = "inherited"
    THEN "send_not_function"
  ELSE IF sendRaises THEN "send_raised"
  ELSE "sent"

RaisedInTry == {"send_not_function", "send_raised"}

\* Whether the error of an outcome leaves the next handler: the catch keeps
\* what the try block raises; SafeSubscriber unsubscribes a handler that
\* raises.
Escapes_NoCatch(outcome) ==
  outcome \in RaisedInTry \cup {"raised_outside_try"}

Escapes(outcome) == outcome = "raised_outside_try"

\* subject.next(message)
SinkNext(message, sendRaises) ==
  /\ LET routed == IF isStopped THEN "stopped" ELSE Route(message)
         outcome == IF routed = "try" THEN TrySend(message, sendRaises)
                    ELSE routed
         called == outcome \in {"sent", "send_raised"}
         name == SocketFor(Get(message, "channel"))
     IN /\ isStopped' = (isStopped \/ Escapes(outcome))
        /\ last' = Op("next", IF called THEN name ELSE "", 0, message, outcome,
                      IF called THEN TransportMessage(message, header)
                      ELSE Empty,
                      IF called THEN <<Call(name, "send")>> ELSE <<>>)
  /\ UNCHANGED << connectVars, header, msgListeners, socketVars, sourceVars,
                  teardownRuns >>

\* The complete handler: Object.keys(sockets).forEach(name => ...), from the
\* i-th socket on.  st holds the sockets' state; the call named by fault
\* raises and ends the handler.
RECURSIVE ForEachSocket(_, _, _)
ForEachSocket(i, st, fault) ==
  IF i > Len(ChannelOrder) THEN st
  ELSE
    LET name == ChannelOrder[i]
        called == [st EXCEPT !.ralCalls[name] = @ + 1,
                             !.calls = Append(@, Call(name,
                                                      "removeAllListeners"))]
        detached == [called EXCEPT !.msgListeners[name] = 0]
        closing == [detached EXCEPT !.closeCalls[name] = @ + 1,
                                    !.calls = Append(@, Call(name, "close"))]
        shut == [closing EXCEPT !.closed[name] = TRUE]
    IN IF fault = <<name, "removeAllListeners">>
         THEN [called EXCEPT !.raised = TRUE]
       ELSE IF ~HasClose(name) THEN ForEachSocket(i + 1, detached, fault)
       ELSE IF fault = <<name, "close">>
         THEN [closing EXCEPT !.raised = TRUE]
       ELSE ForEachSocket(i + 1, shut, fault)

Teardown(fault) ==
  ForEachSocket(1,
                [ralCalls |-> ralCalls, closeCalls |-> closeCalls,
                 closed |-> closed, msgListeners |-> msgListeners,
                 calls |-> <<>>, raised |-> FALSE],
                fault)

\* subject.complete(): Subscriber.complete runs the handler unless the sink
\* is stopped already, and stops it.
SinkComplete(fault) ==
  /\ isStopped' = TRUE
  /\ IF isStopped
       THEN /\ UNCHANGED << socketVars, msgListeners, teardownRuns >>
            /\ last' = Op("complete", "", 0, Empty, "ignored", Empty, <<>>)
       ELSE LET st == Teardown(fault)
            IN /\ ralCalls' = st.ralCalls
               /\ closeCalls' = st.closeCalls
               /\ closed' = st.closed
               /\ msgListeners' = st.msgListeners
               /\ teardownRuns' = teardownRuns + 1
               /\ last' = Op("complete", fault[1], 0, Empty,
                             IF st.raised THEN "teardown_raised"
                             ELSE "teardown", Empty, st.calls)
  /\ UNCHANGED << connectVars, header, sourceVars >>

\* subject.error(err): no error handler is given; the sink is stopped.
SinkError_RunsTeardown ==
  /\ isStopped' = TRUE
  /\ LET st == Teardown(NoFault)
     IN /\ ralCalls' = st.ralCalls
        /\ closeCalls' = st.closeCalls
        /\ closed' = st.closed
        /\ msgListeners' = st.msgListeners
        /\ teardownRuns' = teardownRuns + 1
        /\ last' = Op("error", "", 0, Empty,
                      IF isStopped THEN "ignored" ELSE "stopped", Empty,
                      st.calls)
  /\ UNCHANGED << connectVars, header, sourceVars >>

SinkError ==
  /\ isStopped' = TRUE
  /\ last' = Op("error", "", 0, Empty,
                IF isStopped THEN "ignored" ELSE "stopped", Empty, <<>>)
  /\ UNCHANGED << connectVars, header, msgListeners, socketVars, sourceVars,
                  teardownRuns >>

\* -------------------------------------------------------------- the source
\* refCount(): a subscription that finds n consumers subscribed connects the
\* shared source (and fromEvent attaches its listeners) when it is the first.
Connects_Always(n) == TRUE

Connects(n) == n = 0

\* refCount(): an unsubscription that leaves n consumers disconnects the
\* shared source (and fromEvent removes its listeners) when none is left.
Disconnects(n) == n = 0

\* map(body => { const msg = { ...body, channel: name }; delete msg.idents;
\* return msg; })
InboundMap_BodyWins(name, body) ==
  Delete(Spread([channel |-> name], body), "idents")

InboundMap(name, body) == Delete(Spread(body, [channel |-> name]), "idents")

\* Subject.next of the shared source: the message goes to the end of what a
\* subscribed consumer has been handed.
Deliver_Prepend(got, msg) == <<msg>> \o got

Deliver(got, msg) == Append(got, msg)

\* One Deliver for each of the n listeners attached to the socket.
RECURSIVE DeliverEach(_, _, _)
DeliverEach(got, msg, n) ==
  IF n = 0 THEN got ELSE DeliverEach(Deliver(got, msg), msg, n - 1)

\* publish() shares the source through a plain Subject: a new subscription
\* is handed nothing of what was emitted before it, lastOp included.
OnSubscribe_ReplayLast(lastOp) ==
  IF lastOp.op = "emit" THEN <<lastOp.output>> ELSE <<>>

OnSubscribe(lastOp) == <<>>

\* subject.subscribe(observer) by consumer k
Subscribe(k) ==
  /\ k \notin consumers
  /\ consumers' = consumers \cup {k}
  /\ received' = [received EXCEPT ![k] = OnSubscribe(last)]
  /\ msgListeners' = IF Connects(Cardinality(consumers))
                       THEN [c \in Channels |-> msgListeners[c] + 1]
                       ELSE msgListeners
  /\ last' = Op("subscribe", "", k, Empty,
                IF Connects(Cardinality(consumers)) THEN "connected"
                ELSE "shared", Empty, <<>>)
  /\ UNCHANGED << connectVars, header, isStopped, socketVars, nEvents,
                  teardownRuns >>

\* subscription.unsubscribe() by consumer k
Unsubscribe(k) ==
  /\ k \in consumers
  /\ consumers' = consumers \ {k}
  /\ msgListeners' = IF Disconnects(Cardinality(consumers'))
                       THEN [c \in Channels |->
                               IF msgListeners[c] > 0 THEN msgListeners[c] - 1
                               ELSE 0]
                       ELSE msgListeners
  /\ last' = Op("unsubscribe", "", k, Empty,
                IF Disconnects(Cardinality(consumers')) THEN "disconnected"
                ELSE "shared", Empty, <<>>)
  /\ UNCHANGED << connectVars, header, isStopped, socketVars, received, nEvents,
                  teardownRuns >>

\* The socket of channel name emits "message" with body.  A closed socket
\* receives nothing.
SocketEmit(name, body) ==
  /\ nEvents < MaxEvents
  /\ ~closed[name]
  /\ nEvents' = nEvents + 1
  /\ LET msg == InboundMap(name, body)
         heard == msgListeners[name] > 0 /\ consumers # {}
     IN /\ received' = [k \in Consumers |->
                          IF k \in consumers
                            THEN DeliverEach(received[k], msg,
                                             msgListeners[name])
                            ELSE received[k]]
        /\ last' = Op("emit", name, 0, body,
                      IF heard THEN "delivered" ELSE "unheard",
                      IF heard THEN msg ELSE Empty, <<>>)
  /\ UNCHANGED << connectVars, header, isStopped, socketVars, msgListeners,
                  consumers, teardownRuns >>

\* -------------------------------------------------------- the construction
\* ZMQType.frontend: the zmq socket type of each channel.
ZMQType(channel) == IF channel = "iopub" THEN "sub" ELSE "dealer"

\* config.signature_scheme.slice("hmac-".length)
Scheme(cfg) ==
  IF cfg.signature_scheme = "hmac-sha256" THEN "sha256"
                                          ELSE cfg.signature_scheme

\* The identity argument of one createMainChannel call.
Identity == "identity-1"

\* `${channel}_port`
PortKey(channel) == channel \o "_port"

\* The connection infos tried: both transports, every port present, or the
\* port of one channel absent, or zero.
Configs ==
  LET full == {TcpConfig, IpcConfig}
  IN  full
        \cup {Delete(cfg, PortKey(c)) : cfg \in full, c \in Channels}
        \cup {[cfg EXCEPT ![PortKey(c)] = 0] : cfg \in full, c \in Channels}

\* The subscription argument: left out, or a topic.
Subscriptions == {Undefined, "kernel.1"}

\* subscription: string = ""
Subscription_AlwaysDefault(sub) == ""

Subscription(sub) == IF sub = Undefined THEN "" ELSE sub

\* A call on one socket: its method and its argument.
SocketCall(method, arg) == <<method, arg>>

HasCall(log, method) == \E i \in 1..Len(log) : log[i][1] = method

\* formConnectionString(config, channel): the address, or a throw when the
\* port is undefined or 0.
FormConnectionString_SwappedDelimiter(cfg, channel) ==
  LET portDelimiter == IF cfg.transport = "tcp" THEN "-" ELSE ":"
      key == PortKey(channel)
  IN  IF key \notin DOMAIN cfg \/ cfg[key] = 0
        THEN [threw |-> TRUE, url |-> ""]
        ELSE [threw |-> FALSE,
              url |-> cfg.transport \o "://" \o cfg.ip \o portDelimiter
                        \o ToString(cfg[key])]

FormConnectionString(cfg, channel) ==
  LET portDelimiter == IF cfg.transport = "tcp" THEN ":" ELSE "-"
      key == PortKey(channel)
  IN  IF key \notin DOMAIN cfg \/ cfg[key] = 0
        THEN [threw |-> TRUE, url |-> ""]
        ELSE [threw |-> FALSE,
              url |-> cfg.transport \o "://" \o cfg.ip \o portDelimiter
                        \o ToString(cfg[key])]

\* verifiedConnect(socket, url): the calls made on the socket before the
\* promise is returned.
VerifiedConnectCalls_ConnectFirst(url) ==
  << SocketCall("connect", url), SocketCall("on", "connect"),
     SocketCall("monitor", "") >>

VerifiedConnectCalls(url) ==
  << SocketCall("on", "connect"), SocketCall("monitor", ""),
     SocketCall("connect", url) >>

\* resolve(socket): a promise keeps its first settlement.
Resolve_EveryTime(settlement, socket) == Append(settlement, socket)

Resolve(settlement, socket) ==
  IF settlement = <<>> THEN <<socket>> ELSE settlement

\* createSocket(channel, identity, config, jmp) after the creations before
\* it, st: a throw of an earlier creation ends the evaluation of the list.
CreateSocket(channel, st) ==
  IF st.error # "" THEN st
  ELSE IF ctorFault = channel THEN [st EXCEPT !.error = "construction"]
  ELSE
    LET made == << SocketCall("new", ZMQType(channel) \o " " \o Scheme(config)
                                       \o " " \o config.key),
                   SocketCall("identity", Identity) >>
        addr == FormConnectionString(config, channel)
    IN  IF addr.threw
          THEN [st EXCEPT !.log[channel] = made, !.error = "config"]
          ELSE [st EXCEPT !.log[channel] =
                            made \o VerifiedConnectCalls(addr.url)]

RECURSIVE CreateEach(_, _)
\* The argument list of Promise.all, evaluated left to right from entry i.
CreateEach(i, st) ==
  IF i > Len(ChannelOrder) THEN st
  ELSE CreateEach(i + 1, CreateSocket(ChannelOrder[i], st))

\* A throw inside the async createSockets rejects its promise, and with it
\* the promise of createMainChannel that awaits it.
StatusAfterCreate_Swallowed(err) == "connecting"

StatusAfterCreate(err) == IF err = "" THEN "connecting" ELSE "rejected"

\* createMainChannel(config, subscription, identity, header, jmp) up to the
\* await of Promise.all.
CreateMainChannel ==
  /\ status = "idle"
  /\ LET st == CreateEach(1, [log |-> sockLog, error |-> ""])
     IN  /\ sockLog' = st.log
         /\ error' = st.error
         /\ status' = StatusAfterCreate(st.error)
  /\ UNCHANGED << muxVars, config, subscription, ctorFault, connects,
                  settled, channels >>

\* The socket of channel c emits "connect"; the listener of verifiedConnect,
\* registered with on, runs each time.
ConnectEvent(c) ==
  /\ HasCall(sockLog[c], "connect")
  /\ connects[c] < MaxConnects
  /\ connects' = [connects EXCEPT ![c] = @ + 1]
  /\ IF HasCall(sockLog[c], "on")
       THEN /\ sockLog' = [sockLog EXCEPT
                             ![c] = Append(@, SocketCall("unmonitor", ""))]
            /\ settled' = [settled EXCEPT ![c] = Resolve(@, c)]
       ELSE UNCHANGED << sockLog, settled >>
  /\ UNCHANGED << muxVars, config, subscription, ctorFault, status, error,
                  channels >>

\* Promise.all: fulfilled when each of the promises is.
Joined_Any(settlements) == \E c \in Channels : settlements[c] # <<>>

Joined(settlements) == \A c \in Channels : settlements[c] # <<>>

\* createSockets after the await: iopub.subscribe(subscription) on the
\* fourth socket of the join, then the four sockets are returned.
CreateSocketsResume ==
  /\ status = "connecting"
  /\ Joined(settled)
  /\ LET iopub == IF settled["iopub"] = <<>> THEN "iopub"
                                             ELSE settled["iopub"][1]
     IN  sockLog' = [sockLog EXCEPT
                       ![iopub] = Append(@, SocketCall("subscribe",
                                              Subscription(subscription)))]
  /\ status' = "sockets"
  /\ UNCHANGED << muxVars, config, subscription, ctorFault, error, connects,
                  settled, channels >>

\* createMainChannel after the await: createMainChannelFromSockets(sockets,
\* header, jmp) is returned.
CreateMainChannelResume ==
  /\ status = "sockets"
  /\ status' = "resolved"
  /\ channels' = channels + 1
  /\ UNCHANGED << muxVars, config, subscription, ctorFault, error, sockLog,
                  connects, settled >>

\* ------------------------------------------------------- the specification
Next ==
  \/ \E message \in OutMessages, sendRaises \in BOOLEAN :
       SinkNext(message, sendRaises)
  \/ \E fault \in Faults : SinkComplete(fault)
  \/ SinkError
  \/ \E k \in Consumers : Subscribe(k)
  \/ \E k \in Consumers : Unsubscribe(k)
  \/ \E name \in Channels : \E body \in InBodies(nEvents + 1) :
       SocketEmit(name, body)

Spec == Init /\ [][Next]_vars

\* createMainChannel called once, with any of the connection infos.
ConnectInit ==
  /\ MuxInit
  /\ NotStarted
  /\ config \in Configs
  /\ subscription \in Subscriptions
  /\ ctorFault \in Channels \cup {""}

ConnectNext ==
  \/ CreateMainChannel
  \/ \E c \in Channels : ConnectEvent(c)
  \/ CreateSocketsResume
  \/ CreateMainChannelResume

ConnectSpec == ConnectInit /\ [][ConnectNext]_vars

\* The continuations of the two awaits are scheduled once enabled.
FairConnectSpec ==
  /\ ConnectSpec
  /\ WF_vars(CreateSocketsResume)
  /\ WF_vars(CreateMainChannelResume)

\* ------------------------------------------------------------------ claims
\* An outbound message whose channel tag names one of the four sockets.
KnownTag(message) ==
  message # NullMessage /\ Get(message, "channel") \in Channels

\* The last operation was a next() that found the sink running.
NextOnOpenSink == last.op = "next" /\ last.outcome # "stopped"

\* A step that pushes a message with a known tag into a running sink calls
\* send once, on the socket the tag names, and makes no other call.
KnownMessageIsSent ==
  (~isStopped /\ last'.op = "next" /\ KnownTag(last'.input))
    => last'.calls = <<Call(last'.input.channel, "send")>>

AllTornDown ==
  \A c \in Channels : ralCalls[c] = 1 /\ closeCalls[c] = 1

\* C1: once the sink has been completed, one or more times, every one of the
\* four sockets has had removeAllListeners called exactly once and close
\* called exactly once.
C1_TeardownExactlyOnce == last.op = "complete" => AllTornDown

\* C2: the unsubscription of the last consumer of the source, without the
\* sink ever being completed, closes all four sockets, each exactly once.
C2_UnsubscriptionClosesSockets ==
  (last.op = "unsubscribe" /\ consumers = {} /\ ~isStopped)
    => \A c \in Channels : closed[c] /\ closeCalls[c] = 1

\* C3: when removeAllListeners or close raises on one socket, teardown still
\* detaches the listeners of and closes each of the other sockets.
C3_TeardownSurvivesRaise ==
  (last.op = "complete" /\ last.outcome = "teardown_raised")
    => \A c \in Channels \ {last.chan} :
         /\ ralCalls[c] = 1
         /\ closeCalls[c] = 1
         /\ closed[c]
         /\ msgListeners[c] = 0

\* C4: after teardown has run and closed the sockets, no operation calls send
\* on a socket, hands an event to a consumer, or attaches a listener to a
\* socket again.
C4_ClosedNeverReopens ==
  [][(teardownRuns > 0 /\ \A c \in Channels : closed[c])
       => /\ last'.calls = <<>>
          /\ last'.outcome # "delivered"
          /\ \A c \in Channels : msgListeners'[c] <= msgListeners[c]]_vars

\* C5: a message that is null, has no channel tag, or has a tag that names no
\* socket is dropped: the step calls no socket, closes none and leaves the
\* sink running, so that a later message with a known tag is still sent.
C5_StrayMessageDropped ==
  [][/\ (last'.op = "next" /\ ~KnownTag(last'.input))
          => /\ last'.calls = <<>>
             /\ last'.output = Empty
             /\ closed' = closed
             /\ closeCalls' = closeCalls
             /\ isStopped' = isStopped
     /\ KnownMessageIsSent]_vars

C5_Witness ==
  /\ last.op = "next"
  /\ last.outcome \in {"no_channel", "not_understood", "send_not_function"}
  /\ ~isStopped

\* C6: a send that raises is caught: the step closes no socket, detaches no
\* listener and leaves the sink running, and every later message with a known
\* tag pushed into the running sink is still handed to its socket's send.
C6_SendFailureIsolated ==
  [][/\ (last'.op = "next" /\ last'.outcome \in RaisedInTry)
          => /\ isStopped' = isStopped
             /\ closed' = closed
             /\ closeCalls' = closeCalls
             /\ ralCalls' = ralCalls
             /\ msgListeners' = msgListeners
     /\ (~isStopped /\ last'.op = "next" /\ KnownTag(last'.input))
          => /\ Len(last'.calls) = 1
             /\ last'.calls[1] = Call(last'.input.channel, "send")
             /\ last'.outcome \in {"sent", "send_raised"}]_vars

C6_Witness ==
  /\ last.op = "next"
  /\ last.outcome = "send_raised"
  /\ ~isStopped
  /\ \A c \in Channels : ~closed[c] /\ ralCalls[c] = 0

\* C7: the header of every message handed to a socket's send has the session
\* and username of the multiplexer's session header, whatever the caller put
\* there, and every other header field of the caller unchanged; every message
\* with a known tag pushed into the running sink is handed to send.
C7_SessionHeaderWins ==
  /\ (NextOnOpenSink /\ KnownTag(last.input)) => last.calls # <<>>
  /\ (last.op = "next" /\ last.calls # <<>>)
       => LET sent == last.output.header
              own == SpreadOf(last.input, "header")
          IN /\ sent.session = header.session
             /\ sent.username = header.username
             /\ DOMAIN sent = DOMAIN own \cup {"session", "username"}
             /\ \A f \in DOMAIN own \ {"session", "username"} :
                  sent[f] = own[f]

C7_Witness ==
  /\ last.op = "next"
  /\ last.outcome = "sent"
  /\ "header" \in DOMAIN last.input
  /\ last.input.header.session # header.session
  /\ last.input.header.username # header.username
  /\ last.output.header.msg_id = last.input.header.msg_id

\* C8: a message with channel tag c pushed into the running sink causes
\* exactly one send call, on the socket of c, and no call on another socket;
\* parent_header, content, metadata and buffers of what is sent are the
\* caller's.
C8_RoutingExact ==
  (NextOnOpenSink /\ KnownTag(last.input))
    => /\ last.calls = <<Call(last.input.channel, "send")>>
       /\ last.chan = last.input.channel
       /\ last.output.parent_header = Get(last.input, "parent_header")
       /\ last.output.content = Get(last.input, "content")
       /\ last.output.metadata = Get(last.input, "metadata")
       /\ last.output.buffers = Get(last.input, "buffers")

C8_Witness ==
  /\ last.op = "next"
  /\ last.outcome = "sent"
  /\ last.input.channel = "iopub"
  /\ last.calls = <<Call("iopub", "send")>>
  /\ last.output.content = "foo:1"

\* C9: every message the source hands to a consumer carries the name of the
\* socket that emitted the event as its channel, whatever channel the body
\* had, has no idents, and has every other field of the body unchanged.
C9_InboundTagged ==
  /\ (last.op = "emit" /\ last.outcome = "delivered")
       => LET msg == last.output
          IN /\ msg.channel = last.chan
             /\ "idents" \notin DOMAIN msg
             /\ DOMAIN msg = (DOMAIN last.input \cup {"channel"}) \ {"idents"}
             /\ \A f \in DOMAIN last.input \ {"channel", "idents"} :
                  msg[f] = last.input[f]
             /\ \A k \in consumers :
                  /\ received[k] # <<>>
                  /\ received[k][Len(received[k])] = msg
  /\ \A k \in Consumers : \A i \in 1..Len(received[k]) :
       /\ received[k][i].channel \in Channels
       /\ "idents" \notin DOMAIN received[k][i]

C9_Witness ==
  /\ last.op = "emit"
  /\ last.outcome = "delivered"
  /\ last.chan = "iopub"
  /\ "idents" \in DOMAIN last.input
  /\ "channel" \in DOMAIN last.input
  /\ last.input.channel # last.chan
  /\ \E k \in consumers : received[k][Len(received[k])].channel = "iopub"

Connected(c) == connects[c] > 0

AllConnected == \A c \in Channels : Connected(c)

\* A method's calls in the log of one socket, and the place of the first.
CallCount(log, method) ==
  Cardinality({i \in 1..Len(log) : log[i][1] = method})

FirstCall(log, method) ==
  IF HasCall(log, method)
    THEN CHOOSE i \in 1..Len(log) :
           /\ log[i][1] = method
           /\ \A j \in 1..(i - 1) : log[j][1] # method
    ELSE 0

\* C11: createMainChannel yields the duplex channel only after each of the
\* four sockets has reported connect, whatever the order of the events; as
\* long as a socket has not reported connect a started construction that was
\* not rejected at creation stays pending, and it never rejects afterwards;
\* once all four have reported connect it eventually resolves.
C11_YieldedAfterAllConnect ==
  /\ [](status = "resolved" => AllConnected)
  /\ [](channels > 0 => AllConnected)
  /\ []((status # "idle" /\ error = "" /\ ~AllConnected)
          => (status = "connecting" /\ channels = 0))
  /\ [][status = "connecting" => status' # "rejected"]_vars
  /\ ((status = "connecting" /\ AllConnected) ~> (status = "resolved"))

\* The channel was yielded, and iopub, created last, was not the last socket
\* to connect: shell connected once, iopub twice.
C11_Witness ==
  /\ status = "resolved"
  /\ channels = 1
  /\ connects["iopub"] = MaxConnects
  /\ connects["shell"] = 1

\* Some channel's port is missing or zero in the config.
PortMissing ==
  \E c \in Channels : PortKey(c) \notin DOMAIN config \/ config[PortKey(c)] = 0

\* C12: when the port of a channel is missing or zero, creation fails with
\* the configuration error before any socket has been created: when the
\* error is raised no socket has been constructed, monitored or connected
\* for any channel.
C12_NoSocketBeforeConfigError ==
  error = "config" => \A c \in Channels : sockLog[c] = <<>>

\* C13: if the transport refuses to construct one of the sockets, or a port
\* is missing, the started creation is rejected: no socket set and no duplex
\* channel is ever yielded and subscribe is never called on any socket.
C13_FailedCreationRejects ==
  (status # "idle" /\ (ctorFault # "" \/ PortMissing))
    => /\ status = "rejected"
       /\ error \in {"config", "construction"}
       /\ channels = 0
       /\ \A c \in Channels : ~HasCall(sockLog[c], "subscribe")

\* The construction of the iopub socket was refused while the three sockets
\* created before it went on to connect.
C13_Witness ==
  /\ status = "rejected"
  /\ error = "construction"
  /\ ctorFault = "iopub"
  /\ \A c \in Channels \ {"iopub"} : connects[c] = MaxConnects

\* C14: subscribe is called exactly once in a construction that got past the
\* join and not at all before, only on the iopub socket, with the supplied
\* topic or "" when none was supplied, and only after all four sockets have
\* reported connect.
C14_SubscribeOnceOnIopub ==
  /\ \A c \in Channels :
       CallCount(sockLog[c], "subscribe") =
         IF c = "iopub" /\ status \in {"sockets", "resolved"} THEN 1 ELSE 0
  /\ HasCall(sockLog["iopub"], "subscribe")
       => /\ AllConnected
          /\ sockLog["iopub"][FirstCall(sockLog["iopub"], "subscribe")][2]
               = IF subscription = Undefined THEN "" ELSE subscription

\* A topic was supplied and iopub was subscribed to it.
C14_Witness ==
  /\ status = "resolved"
  /\ subscription = "kernel.1"
  /\ SocketCall("subscribe", "kernel.1")
       \in {sockLog["iopub"][i] : i \in 1..Len(sockLog["iopub"])}

\* The "connect" call in the log of one socket, <<>> when there is none.
ConnectCall(log) ==
  IF HasCall(log, "connect") THEN log[FirstCall(log, "connect")] ELSE <<>>

\* C15: formConnectionString(config, channel) is, for each of the four
\* channels, "tcp://" + ip + ":" + port for tcp and "ipc://" + ip + "-" +
\* port for ipc when the channel's port is present and not zero, and a throw
\* when it is absent or zero; the address a socket is connected to is that
\* string, and the config is never changed.
C15_ConnectionString ==
  /\ [](\A c \in Channels :
          LET key == c \o "_port"
              made == FormConnectionString(config, c)
          IN  /\ IF key \in DOMAIN config /\ config[key] # 0
                   THEN /\ ~made.threw
                        /\ config.transport = "tcp"
                             => made.url = "tcp://" \o config.ip \o ":"
                                             \o ToString(config[key])
                        /\ config.transport = "ipc"
                             => made.url = "ipc://" \o config.ip \o "-"
                                             \o ToString(config[key])
                   ELSE made.threw
              /\ HasCall(sockLog[c], "connect")
                   => ConnectCall(sockLog[c]) = SocketCall("connect", made.url))
  /\ []((config = TcpConfig /\ HasCall(sockLog["shell"], "connect"))
          => ConnectCall(sockLog["shell"])
               = SocketCall("connect", "tcp://127.0.0.1:5555"))
  /\ []((config = IpcConfig /\ HasCall(sockLog["iopub"], "connect"))
          => ConnectCall(sockLog["iopub"])
               = SocketCall("connect", "ipc:///tmp/x-5558"))
  /\ [][config' = config]_vars

\* An ipc config whose stdin port is zero: shell was connected to its ipc
\* address and the creation failed at stdin.
C15_Witness ==
  /\ config.transport = "ipc"
  /\ "stdin_port" \in DOMAIN config
  /\ config.stdin_port = 0
  /\ error = "config"
  /\ ConnectCall(sockLog["shell"]) = SocketCall("connect", "ipc:///tmp/x-5555")
  /\ sockLog["iopub"] = <<>>

\* C16: on each socket the connect listener is registered first, then
\* monitoring is started, then connect(url) is initiated, so that every
\* connect event after connect(url) reaches the listener; unmonitor is called
\* only in response to a connect event, and the operation is resolved, with
\* that same socket, only once unmonitor has been called.
C16_VerifiedConnectOrder ==
  \A c \in Channels :
    LET log == sockLog[c]
    IN  /\ HasCall(log, "connect")
             => /\ 0 < FirstCall(log, "on")
                /\ FirstCall(log, "on") < FirstCall(log, "monitor")
                /\ FirstCall(log, "monitor") < FirstCall(log, "connect")
                /\ CallCount(log, "connect") = 1
        /\ CallCount(log, "unmonitor") = connects[c]
        /\ HasCall(log, "unmonitor")
             => FirstCall(log, "connect") < FirstCall(log, "unmonitor")
        /\ Connected(c) => settled[c] # <<>>
        /\ settled[c] # <<>>
             => /\ settled[c][1] = c
                /\ HasCall(log, "unmonitor")

\* stdin has connected once: the calls on it, in order.
C16_Witness ==
  /\ connects["stdin"] = 1
  /\ settled["stdin"] = <<"stdin">>
  /\ Len(sockLog["stdin"]) = 6
  /\ sockLog["stdin"][3] = SocketCall("on", "connect")
  /\ sockLog["stdin"][4] = SocketCall("monitor", "")
  /\ sockLog["stdin"][5][1] = "connect"
  /\ sockLog["stdin"][6] = SocketCall("unmonitor", "")

\* Each socket's operation is resolved at most once, by its first connect
\* event, with that socket; at most one duplex channel is yielded and iopub
\* is subscribed at most once.
SingleShot ==
  /\ \A c \in Channels :
       /\ Len(settled[c]) <= 1
       /\ Connected(c) => settled[c] = <<c>>
       /\ ~Connected(c) => settled[c] = <<>>
  /\ channels <= 1
  /\ \A c \in Channels : CallCount(sockLog[c], "subscribe") <= 1

\* A step in which socket c emits connect after its first connect event.
LaterConnect(c) == connects[c] > 0 /\ connects'[c] > connects[c]

\* C17 as stated: the wait is single-shot, and a connect event after the
\* first has no further effect on the socket.
C17_LaterConnectHasNoEffect ==
  /\ []SingleShot
  /\ [][\A c \in Channels :
          LaterConnect(c)
            => /\ sockLog' = sockLog
               /\ settled' = settled
               /\ status' = status
               /\ channels' = channels]_vars

\* C17 amended: the wait is single-shot, and a connect event after the first
\* resolves nothing, yields nothing and subscribes nothing, but the listener
\* is still registered and calls unmonitor on the socket once more.
C17_LaterConnectOnlyUnmonitors ==
  /\ []SingleShot
  /\ [][\A c \in Channels :
          LaterConnect(c)
            => /\ sockLog' = [sockLog EXCEPT
                                ![c] = Append(@, SocketCall("unmonitor", ""))]
               /\ settled' = settled
               /\ status' = status
               /\ channels' = channels]_vars

\* The channel was yielded and iopub has emitted connect a second time.
C17_Witness ==
  /\ status = "resolved"
  /\ channels = 1
  /\ connects["iopub"] = 2
  /\ settled["iopub"] = <<"iopub">>
  /\ CallCount(sockLog["iopub"], "unmonitor") = 2
  /\ CallCount(sockLog["iopub"], "subscribe") = 1

\* How often the n-th event is among the messages got.
Occurrences(got, n) ==
  Cardinality({i \in 1..Len(got) : got[i].content = n})

\* C18 as stated: each socket has exactly one message listener while some
\* consumer is subscribed and none otherwise, and each event on a socket is
\* delivered exactly once to every consumer subscribed at that moment.
C18_ListenerWhileSubscribed ==
  /\ \A c \in Channels :
       msgListeners[c] = IF consumers = {} THEN 0 ELSE 1
  /\ last.op = "emit"
       => \A k \in Consumers :
            Occurrences(received[k], nEvents) = IF k \in consumers THEN 1
                                                ELSE 0

\* C18 amended: a socket never has more than one message listener and has
\* none when no consumer is subscribed; until the teardown of the sink has
\* run it has one whenever a consumer is subscribed; an event on a socket
\* whose listener is attached is delivered exactly once to every consumer
\* subscribed at that moment, and an event on a socket without listener to
\* nobody.
C18_SharedListener ==
  /\ \A c \in Channels :
       /\ msgListeners[c] <= 1
       /\ consumers = {} => msgListeners[c] = 0
       /\ (consumers # {} /\ teardownRuns = 0) => msgListeners[c] = 1
  /\ last.op = "emit"
       => \A k \in Consumers :
            Occurrences(received[k], nEvents) =
              IF k \in consumers /\ msgListeners[last.chan] = 1 THEN 1 ELSE 0

\* Two consumers are subscribed, and both were handed the last event once.
C18_Witness ==
  /\ last.op = "emit"
  /\ consumers = Consumers
  /\ msgListeners[last.chan] = 1
  /\ \A k \in Consumers :
       /\ received[k] # <<>>
       /\ received[k][Len(received[k])].content = nEvents
       /\ Occurrences(received[k], nEvents) = 1

\* C19: inbound events are not buffered: an event that arrives while no
\* consumer is subscribed is delivered to nobody, a new subscription starts
\* with nothing, and what a consumer is handed in a step is the event of
\* that step, so it only ever holds events that arrived after it subscribed.
C19_NoReplay ==
  /\ []((last.op = "emit" /\ consumers = {})
          => /\ last.outcome = "unheard"
             /\ \A k \in Consumers : Occurrences(received[k], nEvents) = 0)
  /\ [](last.op = "subscribe" => received[last.who] = <<>>)
  /\ [][\A k \in Consumers :
          \/ received'[k] = received[k]
          \/ /\ k \notin consumers
             /\ k \in consumers'
             /\ received'[k] = <<>>
          \/ /\ k \in consumers
             /\ nEvents' = nEvents + 1
             /\ Len(received'[k]) = Len(received[k]) + 1
             /\ SubSeq(received'[k], 1, Len(received[k])) = received[k]
             /\ received'[k][Len(received'[k])].content = nEvents']_vars

\* The first event arrived unheard; a consumer subscribed after it holds the
\* second event only.
C19_Witness ==
  /\ nEvents = 2
  /\ last.op = "emit"
  /\ \E k \in consumers :
       /\ Len(received[k]) = 1
       /\ received[k][1].content = 2
  /\ \A k \in Consumers : Occurrences(received[k], 1) = 0

====
